---- MODULE Spec2Model ----
(***************************************************************************)
(* Change-detection monitor of ha-knx-datalogger.py                        *)
(* (EntityAnalyzer.start_group_monitoring, its nested monitor_loop worker  *)
(* and EntityAnalyzer.get_current_state).                                  *)
(*                                                                         *)
(* One monitoring session is one call of start_group_monitoring.  The main *)
(* menu loop calls it again only after the previous call has returned, so  *)
(* sessions are numbered 1..cur and the controlling contexts are           *)
(* sequential; the worker thread of an earlier session may outlive its     *)
(* call because join() has a timeout.  All sessions target the same csv    *)
(* file.  A csv handle is a text buffer (buf) in front of the file:        *)
(* writerow/writeheader append to the buffer, flush/close move the buffer  *)
(* to the end of the file.                                                 *)
(*                                                                         *)
(* Atomic steps are the per-entity steps of the two loops (one fetch and   *)
(* what the code does with its result), the loop tests and the blocking    *)
(* calls (input, sleep, join).                                             *)
(***************************************************************************)
EXTENDS Integers, Sequences, FiniteSets, TLC

\* ---------------------------------------------------------------- bounds
MaxSessions == 2
MaxTicks == 2
MaxFetches == 3

Sessions == 1..MaxSessions

\* ------------------------------------------------------------ input sets
Entities == {"e1", "e2"}

\* caller-supplied selections; select_entities_interactive never adds an
\* index twice, so the ids of a selection are distinct
Selections == {<<>>, <<"e1">>, <<"e1", "e2">>}

\* what get_current_state can return: None (any exception), or the decoded
\* entity document, either with a "state" key ("on") or without one
FetchResults == {"None", "on", "NoStateKey"}

Absent == "absent"

\* ------------------------------------------------------------- variables
VARIABLES
  cur,            \* number of calls of start_group_monitoring made so far
  fileExists,     \* os.path.exists(csv_filename)
  file,           \* rows that reached the csv file
  mainPC,         \* position of the controlling context of each session
  selected,       \* selected_entities of each session
  active,         \* monitoring["active"]
  last_states,    \* last_states dict: entity -> state, Absent = no key
  buf,            \* rows in the csv handle's buffer, not yet flushed
  closed,         \* the csv handle has been closed
  bIdx,           \* position of the baseline loop
  workerPC,       \* position of the monitor_loop thread
  wIdx,           \* position of the worker's entity loop
  checks_count,
  changes_count,
  callResult,     \* how the call ended: "none" (running), "return", "raise"
  report,         \* what the call printed last: none/no_entities/error/stopped
  \* ---- history variables (observations, not program state)
  written,        \* rows whose writerow succeeded, per session, in order
  baseLen,        \* Len(written) when the worker thread was started
  baselineOK,     \* number of successful baseline fetches
  fetches,        \* number of get_current_state calls
  lastResult,     \* result of the session's latest fetch
  attempts,       \* writerow calls of the worker, per entity
  differ,         \* successful worker fetches differing from the last record
  existedAtOpen,  \* file_exists as computed when the session opened the sink
  wroteHeader,    \* the session called writeheader
  createdBy,      \* session whose open() created the file, 0 = pre-existing
  sinkFailed,     \* a writerow/flush of the session raised
  cancelInSleep   \* the stop flag was set while the worker was sleeping

vars == <<cur, fileExists, file, mainPC, selected, active, last_states, buf,
          closed, bIdx, workerPC, wIdx, checks_count, changes_count,
          callResult, report, written, baseLen, baselineOK, fetches,
          lastResult, attempts, differ, existedAtOpen, wroteHeader,
          createdBy, sinkFailed, cancelInSleep>>

\* the EntityAnalyzer object and the call made on it
VARIABLES
  entities,       \* self.entities: the snapshot, a list of entity documents
  rooms,          \* self.rooms: the labels found by detect_rooms
  analysis,       \* self.analysis and how the last analyze_all call ended
  probe,          \* the entity handed to the last classify_* / lookup call
  classified      \* what that call returned, or that it raised

classVars == <<entities, rooms, analysis, probe, classified>>

allVars == <<vars, classVars>>

\* ------------------------------------------------------------------ rows
HeaderRow == [s |-> 0, e |-> "header", v |-> "header"]

Row(s, e, v) == [s |-> s, e |-> e, v |-> v]

IsData(r) == r.e # "header"

\* history left in the file by an earlier program run
PriorHistory == <<HeaderRow, [s |-> 0, e |-> "e1", v |-> "on"]>>

\* --------------------------------------------------------------- helpers
TruthyMutant(r) == TRUE

\* `if current_state:` -- None is falsy, an entity document is truthy
Truthy(r) == r # "None"

\* current_state.get('state', 'unknown')
StateOf(r) == IF r = "NoStateKey" THEN "unknown" ELSE r

ChangedMutant(new_state, old_state) == TRUE

ChangedKnownOnlyMutant(new_state, old_state) ==
  old_state # Absent /\ new_state # old_state

\* `if new_state != old_state:` with old_state = last_states.get(entity_id)
Changed(new_state, old_state) == new_state # old_state

IsEmptySelectionMutant(ents) == FALSE

\* `if not selected_entities:`
IsEmptySelection(ents) == ents = <<>>

NeedsHeaderMutant(file_exists) == TRUE

\* `if not file_exists: writer.writeheader()`
NeedsHeader(file_exists) == ~file_exists

\* csvfile.flush(): the buffered rows go to the end of the file
FlushInto(f, b) == f \o b

BaselineRowsMutant(f, s, entity_id, state_value) ==
  IF \E i \in 1..Len(f) : f[i].e = entity_id
  THEN <<>> ELSE <<Row(s, entity_id, state_value)>>

\* the baseline's writer.writerow(row): one row per successful fetch,
\* whatever the file f already holds
BaselineRows(f, s, entity_id, state_value) ==
  <<Row(s, entity_id, state_value)>>

WorkerWriteMutant(f, b, row) == [file |-> f, buf |-> Append(b, row)]

\* the worker's writer.writerow(row); csvfile.flush()
WorkerWrite(f, b, row) ==
  [file |-> FlushInto(f, Append(b, row)), buf |-> <<>>]

RECURSIVE CountIf(_, _, _)
CountIf(seq, s, e) ==
  IF seq = <<>> THEN 0
  ELSE (IF seq[1].s = s /\ seq[1].e = e THEN 1 ELSE 0)
       + CountIf(Tail(seq), s, e)

RECURSIVE LastRecorded(_, _)
\* state of the last row of seq for entity e, Absent if there is none
LastRecorded(seq, e) ==
  IF seq = <<>> THEN Absent
  ELSE IF seq[Len(seq)].e = e THEN seq[Len(seq)].v
       ELSE LastRecorded(SubSeq(seq, 1, Len(seq) - 1), e)

RECURSIVE DataRows(_)
DataRows(seq) ==
  IF seq = <<>> THEN 0
  ELSE (IF IsData(seq[1]) THEN 1 ELSE 0) + DataRows(Tail(seq))

\* ------------------------------------------------------ entity documents
\* A string whose content the code inspects is a sequence of characters.
\* An attribute that is not a string is one of three marks:
Missing == <<"<missing>">>   \* the key is not in the document
Null == <<"<null>">>         \* the key is there with the JSON value null
NotText == <<"<number>">>    \* the key is there with a number

IsText(x) == x \notin {Missing, Null, NotText}

\* d.get(key, default) for a string-valued key
GetOr(x, default) == IF x = Missing THEN default ELSE x

\* an entity document.  supported_features is an integer when
\* features_kind is "int"; otherwise the key is "missing", "null" or holds
\* "text".  device_class is compared as a whole, never searched: it is a
\* plain string, "<missing>", "<null>" or "<list>" (an unhashable value)
Entity(id, name, fk, sf, dc, unit) ==
  [entity_id |-> id, friendly_name |-> name, features_kind |-> fk,
   supported_features |-> sf, device_class |-> dc, unit |-> unit]

\* the document {}
EmptyDoc == Entity(Missing, Missing, "missing", 0, "<missing>", Missing)

\* Python's None as the result of the room lookup
NoRoom == <<"<none>">>

\* the result of a classify_* or _extract_room call
Result(kind, type, capabilities, room) ==
  [kind |-> kind, type |-> type, capabilities |-> capabilities,
   room |-> room]

NotRun == Result("none", "", <<>>, NoRoom)

\* the call ended with an exception (TypeError, AttributeError)
Raised == Result("raise", "", <<>>, NoRoom)

\* self.analysis = {} with no call of analyze_all made yet
NoAnalysis ==
  [status |-> "none", total_entities |-> 0, rooms |-> {}, items |-> <<>>]

\* ------------------------------------------------------------------ Init
Init ==
  /\ cur = 0
  /\ \/ fileExists = FALSE /\ file = <<>>
     \/ fileExists = TRUE /\ file = PriorHistory
  /\ mainPC = [s \in Sessions |-> "idle"]
  /\ selected = [s \in Sessions |-> <<>>]
  /\ active = [s \in Sessions |-> FALSE]
  /\ last_states = [s \in Sessions |-> [e \in Entities |-> Absent]]
  /\ buf = [s \in Sessions |-> <<>>]
  /\ closed = [s \in Sessions |-> FALSE]
  /\ bIdx = [s \in Sessions |-> 1]
  /\ workerPC = [s \in Sessions |-> "none"]
  /\ wIdx = [s \in Sessions |-> 1]
  /\ checks_count = [s \in Sessions |-> 0]
  /\ changes_count = [s \in Sessions |-> 0]
  /\ callResult = [s \in Sessions |-> "none"]
  /\ report = [s \in Sessions |-> "none"]
  /\ written = [s \in Sessions |-> <<>>]
  /\ baseLen = [s \in Sessions |-> 0]
  /\ baselineOK = [s \in Sessions |-> 0]
  /\ fetches = [s \in Sessions |-> 0]
  /\ lastResult = [s \in Sessions |-> "none"]
  /\ attempts = [s \in Sessions |-> [e \in Entities |-> 0]]
  /\ differ = [s \in Sessions |-> [e \in Entities |-> 0]]
  /\ existedAtOpen = [s \in Sessions |-> FALSE]
  /\ wroteHeader = [s \in Sessions |-> FALSE]
  /\ createdBy = 0
  /\ sinkFailed = [s \in Sessions |-> FALSE]
  /\ cancelInSleep = [s \in Sessions |-> FALSE]
  /\ entities = <<>>
  /\ rooms = {}
  /\ analysis = NoAnalysis
  /\ probe = EmptyDoc
  /\ classified = NotRun

RECURSIVE SumUpTo(_, _)
SumUpTo(f, n) == IF n = 0 THEN 0 ELSE f[n] + SumUpTo(f, n - 1)

\* get_current_state calls made so far by all sessions
TotalFetches == SumUpTo(fetches, MaxSessions)

\* --------------------------------------------------------------- actions
fileVars == <<fileExists, file, createdBy>>
workerVars == <<workerPC, wIdx, checks_count, changes_count, attempts,
                differ, cancelInSleep, baseLen>>
openVars == <<selected, existedAtOpen, wroteHeader>>

\* start_group_monitoring up to the baseline loop: the empty-selection
\* test, then the opening of the csv file and the header
Start(ents) ==
  /\ cur < MaxSessions
  /\ cur > 0 => mainPC[cur] = "returned"
  /\ cur' = cur + 1
  /\ UNCHANGED classVars
  /\ LET s == cur + 1 IN
       IF IsEmptySelection(ents)
       THEN /\ mainPC' = [mainPC EXCEPT ![s] = "returned"]
            /\ callResult' = [callResult EXCEPT ![s] = "return"]
            /\ report' = [report EXCEPT ![s] = "no_entities"]
            /\ UNCHANGED <<fileVars, openVars, workerVars, active,
                           last_states, buf, closed, bIdx, written,
                           baselineOK, fetches, lastResult, sinkFailed>>
       ELSE /\ selected' = [selected EXCEPT ![s] = ents]
            /\ active' = [active EXCEPT ![s] = TRUE]
            /\ existedAtOpen' = [existedAtOpen EXCEPT ![s] = fileExists]
            /\ fileExists' = TRUE
            /\ createdBy' = IF fileExists THEN createdBy ELSE s
            /\ wroteHeader' = [wroteHeader EXCEPT
                                 ![s] = NeedsHeader(fileExists)]
            /\ buf' = [buf EXCEPT ![s] = IF NeedsHeader(fileExists)
                                         THEN <<HeaderRow>> ELSE <<>>]
            /\ mainPC' = [mainPC EXCEPT ![s] = "baseline"]
            /\ bIdx' = [bIdx EXCEPT ![s] = 1]
            /\ UNCHANGED <<file, workerVars, last_states, closed,
                           callResult, report, written, baselineOK,
                           fetches, lastResult, sinkFailed>>

\* `except Exception as e:` of start_group_monitoring, then the return of
\* the call.  The worker has not been started, so the returning frame holds
\* the last reference to csvfile: the file object is finalised, which
\* flushes its buffer and closes it.
Abort(s) ==
  /\ sinkFailed' = [sinkFailed EXCEPT ![s] = TRUE]
  /\ active' = [active EXCEPT ![s] = FALSE]
  /\ report' = [report EXCEPT ![s] = "error"]
  /\ callResult' = [callResult EXCEPT ![s] = "return"]
  /\ mainPC' = [mainPC EXCEPT ![s] = "returned"]
  /\ file' = FlushInto(file, buf[s])
  /\ buf' = [buf EXCEPT ![s] = <<>>]
  /\ closed' = [closed EXCEPT ![s] = TRUE]

\* one iteration of the baseline loop: fetch result r, writerow outcome wok
BaselineStep(s, r, wok) ==
  /\ mainPC[s] = "baseline"
  /\ bIdx[s] <= Len(selected[s])
  /\ TotalFetches < MaxFetches
  /\ fetches' = [fetches EXCEPT ![s] = @ + 1]
  /\ lastResult' = [lastResult EXCEPT ![s] = r]
  /\ LET entity_id == selected[s][bIdx[s]]
         state_value == StateOf(r)
     IN IF Truthy(r)
        THEN /\ last_states' = [last_states EXCEPT
                                  ![s][entity_id] = state_value]
             /\ baselineOK' = [baselineOK EXCEPT ![s] = @ + 1]
             /\ IF wok
                THEN /\ buf' = [buf EXCEPT ![s] = @ \o
                            BaselineRows(file, s, entity_id, state_value)]
                     /\ written' = [written EXCEPT ![s] = @ \o
                            BaselineRows(file, s, entity_id, state_value)]
                     /\ bIdx' = [bIdx EXCEPT ![s] = @ + 1]
                     /\ UNCHANGED <<file, closed, active, report,
                                    callResult, mainPC, sinkFailed>>
                ELSE /\ Abort(s)
                     /\ UNCHANGED <<written, bIdx>>
        ELSE /\ wok
             /\ bIdx' = [bIdx EXCEPT ![s] = @ + 1]
             /\ UNCHANGED <<last_states, baselineOK, buf, written, file,
                            closed, active, report, callResult, mainPC,
                            sinkFailed>>
  /\ UNCHANGED <<classVars, cur, fileExists, createdBy, openVars, workerVars>>

\* end of the baseline loop: csvfile.flush() with outcome fok, then the
\* worker thread is started and the controlling context blocks in input()
BaselineDone(s, fok) ==
  /\ mainPC[s] = "baseline"
  /\ bIdx[s] > Len(selected[s])
  /\ IF fok
     THEN /\ file' = FlushInto(file, buf[s])
          /\ buf' = [buf EXCEPT ![s] = <<>>]
          /\ workerPC' = [workerPC EXCEPT ![s] = "top"]
          /\ baseLen' = [baseLen EXCEPT ![s] = Len(written[s])]
          /\ mainPC' = [mainPC EXCEPT ![s] = "input"]
          /\ UNCHANGED <<closed, active, report, callResult, sinkFailed>>
     ELSE /\ Abort(s)
          /\ UNCHANGED <<workerPC, baseLen>>
  /\ UNCHANGED <<classVars, cur, fileExists, createdBy, openVars, wIdx, checks_count,
                 changes_count, attempts, differ, cancelInSleep,
                 last_states, bIdx, written, baselineOK, fetches,
                 lastResult>>

\* `while monitoring["active"]:` -- a new tick, or the exit of the loop and
\* csvfile.close()
WorkerTop(s) ==
  /\ workerPC[s] = "top"
  /\ active[s] => checks_count[s] < MaxTicks
  /\ IF active[s]
     THEN /\ checks_count' = [checks_count EXCEPT ![s] = @ + 1]
          /\ wIdx' = [wIdx EXCEPT ![s] = 1]
          /\ workerPC' = [workerPC EXCEPT ![s] = "poll"]
          /\ UNCHANGED <<file, buf, closed>>
     ELSE /\ file' = FlushInto(file, buf[s])
          /\ buf' = [buf EXCEPT ![s] = <<>>]
          /\ closed' = [closed EXCEPT ![s] = TRUE]
          /\ workerPC' = [workerPC EXCEPT ![s] = "done"]
          /\ UNCHANGED <<checks_count, wIdx>>
  /\ UNCHANGED <<classVars, cur, fileExists, createdBy, openVars, mainPC, active,
                 last_states, bIdx, changes_count, callResult, report,
                 written, baseLen, baselineOK, fetches, lastResult,
                 attempts, differ, sinkFailed, cancelInSleep>>

\* where the worker goes after the entity at wIdx: the next entity of the
\* tick, or time.sleep(0.5) after the last one
AfterEntity(s) ==
  IF wIdx[s] < Len(selected[s])
  THEN /\ wIdx' = [wIdx EXCEPT ![s] = @ + 1]
       /\ UNCHANGED workerPC
  ELSE /\ workerPC' = [workerPC EXCEPT ![s] = "sleep"]
       /\ UNCHANGED wIdx

\* one iteration of the worker's entity loop: fetch result r, outcome wok
\* of writerow + flush
WorkerPoll(s, r, wok) ==
  /\ workerPC[s] = "poll"
  /\ TotalFetches < MaxFetches
  /\ fetches' = [fetches EXCEPT ![s] = @ + 1]
  /\ lastResult' = [lastResult EXCEPT ![s] = r]
  /\ LET entity_id == selected[s][wIdx[s]]
         new_state == StateOf(r)
         old_state == last_states[s][entity_id]
     IN IF Truthy(r)
        THEN /\ differ' = [differ EXCEPT ![s][entity_id] =
                   IF new_state # LastRecorded(written[s], entity_id)
                   THEN @ + 1 ELSE @]
             /\ IF Changed(new_state, old_state)
                THEN /\ changes_count' = [changes_count EXCEPT
                                            ![s] = @ + 1]
                     /\ last_states' = [last_states EXCEPT
                                          ![s][entity_id] = new_state]
                     /\ attempts' = [attempts EXCEPT
                                       ![s][entity_id] = @ + 1]
                     /\ IF wok
                        THEN /\ file' = WorkerWrite(file, buf[s],
                                  Row(s, entity_id, new_state)).file
                             /\ buf' = [buf EXCEPT ![s] =
                                  WorkerWrite(file, buf[s],
                                    Row(s, entity_id, new_state)).buf]
                             /\ written' = [written EXCEPT ![s] =
                                  Append(@, Row(s, entity_id, new_state))]
                             /\ AfterEntity(s)
                             /\ UNCHANGED sinkFailed
                        ELSE \* the exception ends the thread
                             /\ workerPC' = [workerPC EXCEPT
                                               ![s] = "died"]
                             /\ sinkFailed' = [sinkFailed EXCEPT
                                                 ![s] = TRUE]
                             /\ UNCHANGED <<file, buf, written, wIdx>>
                ELSE /\ wok
                     /\ AfterEntity(s)
                     /\ UNCHANGED <<changes_count, last_states, attempts,
                                    file, buf, written, sinkFailed>>
        ELSE /\ wok
             /\ AfterEntity(s)
             /\ UNCHANGED <<differ, changes_count, last_states, attempts,
                            file, buf, written, sinkFailed>>
  /\ UNCHANGED <<classVars, cur, fileExists, createdBy, openVars, mainPC, active,
                 closed, bIdx, checks_count, callResult, report, baseLen,
                 baselineOK, cancelInSleep>>

WorkerSleepMutant(s) ==
  /\ workerPC[s] = "sleep"
  /\ checks_count[s] < MaxTicks
  /\ workerPC' = [workerPC EXCEPT ![s] = "poll"]
  /\ wIdx' = [wIdx EXCEPT ![s] = 1]
  /\ checks_count' = [checks_count EXCEPT ![s] = @ + 1]
  /\ UNCHANGED <<classVars, cur, fileVars, openVars, mainPC, active, last_states, buf,
                 closed, bIdx, changes_count, callResult, report, written,
                 baseLen, baselineOK, fetches, lastResult, attempts, differ,
                 sinkFailed, cancelInSleep>>

\* time.sleep(0.5) returns: back to the loop test
WorkerSleep(s) ==
  /\ workerPC[s] = "sleep"
  /\ workerPC' = [workerPC EXCEPT ![s] = "top"]
  /\ UNCHANGED <<classVars, cur, fileVars, openVars, mainPC, active, last_states, buf,
                 closed, bIdx, wIdx, checks_count, changes_count,
                 callResult, report, written, baseLen, baselineOK, fetches,
                 lastResult, attempts, differ, sinkFailed, cancelInSleep>>

\* input() returns (the cancellation signal): monitoring["active"] = False
Cancel(s) ==
  /\ mainPC[s] = "input"
  /\ active' = [active EXCEPT ![s] = FALSE]
  /\ mainPC' = [mainPC EXCEPT ![s] = "join"]
  /\ cancelInSleep' = [cancelInSleep EXCEPT ![s] = (workerPC[s] = "sleep")]
  /\ UNCHANGED <<classVars, cur, fileVars, openVars, last_states, buf, closed, bIdx,
                 workerPC, wIdx, checks_count, changes_count, callResult,
                 report, written, baseLen, baselineOK, fetches, lastResult,
                 attempts, differ, sinkFailed>>

\* the call prints "Monitoreo detenido por el usuario" and returns; when
\* the worker thread has ended, the returning frame holds the last
\* reference to csvfile and the file object is finalised
Return(s) ==
  /\ mainPC' = [mainPC EXCEPT ![s] = "returned"]
  /\ report' = [report EXCEPT ![s] = "stopped"]
  /\ callResult' = [callResult EXCEPT ![s] = "return"]
  /\ IF workerPC[s] \in {"done", "died"} /\ ~closed[s]
     THEN /\ file' = FlushInto(file, buf[s])
          /\ buf' = [buf EXCEPT ![s] = <<>>]
          /\ closed' = [closed EXCEPT ![s] = TRUE]
     ELSE UNCHANGED <<file, buf, closed>>
  /\ UNCHANGED <<classVars, cur, fileExists, createdBy, openVars, workerVars, active,
                 last_states, bIdx, written, baselineOK, fetches,
                 lastResult, sinkFailed>>

\* monitor_thread.join(timeout=5) returns because the thread has ended
JoinDone(s) ==
  /\ mainPC[s] = "join"
  /\ workerPC[s] \in {"done", "died"}
  /\ Return(s)

\* monitor_thread.join(timeout=5) returns on the timeout: the worker is
\* still inside a tick, whose fetches (timeout=5 each) outlast the join
JoinTimeout(s) ==
  /\ mainPC[s] = "join"
  /\ workerPC[s] = "poll"
  /\ Return(s)

Next ==
  \/ \E ents \in Selections : Start(ents)
  \/ \E s \in Sessions, r \in FetchResults, wok \in BOOLEAN :
       BaselineStep(s, r, wok)
  \/ \E s \in Sessions, fok \in BOOLEAN : BaselineDone(s, fok)
  \/ \E s \in Sessions : WorkerTop(s)
  \/ \E s \in Sessions, r \in FetchResults, wok \in BOOLEAN :
       WorkerPoll(s, r, wok)
  \/ \E s \in Sessions : WorkerSleep(s)
  \/ \E s \in Sessions : Cancel(s)
  \/ \E s \in Sessions : JoinDone(s)
  \/ \E s \in Sessions : JoinTimeout(s)

Spec == Init /\ [][Next]_allVars

\* ---------------------------------------------------------- MaxMask bound
\* supported_features values handed to classify_light: 0..MaxMask
MaxMask == 255

\* --------------------------------------------------------------- strings
\* Python's `sub in s` for strings
Contains(sub, s) ==
  \E i \in 0..(Len(s) - Len(sub)) : SubSeq(s, i + 1, i + Len(sub)) = sub

\* str.lower(), for the upper-case letters of the Spanish alphabet
UpperToLower ==
  ("A" :> "a") @@ ("B" :> "b") @@
  ("C" :> "c") @@
  ("D" :> "d") @@
  ("E" :> "e") @@
  ("F" :> "f") @@
  ("G" :> "g") @@
  ("H" :> "h") @@
  ("I" :> "i") @@
  ("J" :> "j") @@
  ("K" :> "k") @@
  ("L" :> "l") @@
  ("M" :> "m") @@
  ("N" :> "n") @@
  ("O" :> "o") @@
  ("P" :> "p") @@
  ("Q" :> "q") @@
  ("R" :> "r") @@
  ("S" :> "s") @@
  ("T" :> "t") @@
  ("U" :> "u") @@
  ("V" :> "v") @@
  ("W" :> "w") @@
  ("X" :> "x") @@
  ("Y" :> "y") @@
  ("Z" :> "z") @@
  ("Á" :> "á") @@
  ("É" :> "é") @@
  ("Í" :> "í") @@
  ("Ñ" :> "ñ") @@
  ("Ó" :> "ó") @@
  ("Ú" :> "ú")

LowerChar(c) == IF c \in DOMAIN UpperToLower THEN UpperToLower[c] ELSE c

Lower(s) == [i \in 1..Len(s) |-> LowerChar(s[i])]

\* -------------------------------------------------------- room inference
\* room_keywords of detect_rooms: <<keyword, canonical label>>
room_keywords ==
  <<<<<<"s", "a", "l", "o", "n">>, <<"S", "a", "l", "ó", "n">>>>,
     <<<<"s", "a", "l", "ó", "n">>, <<"S", "a", "l", "ó", "n">>>>,
     <<<<"s", "a", "l", "a">>, <<"S", "a", "l", "ó", "n">>>>,
     <<<<"l", "i", "v", "i", "n", "g">>, <<"S", "a", "l", "ó", "n">>>>,
     <<<<"c", "o", "c", "i", "n", "a">>, <<"C", "o", "c", "i", "n", "a">>>>,
     <<<<"k", "i", "t", "c", "h", "e", "n">>, <<"C", "o", "c", "i", "n", "a">>>>,
     <<<<"d", "o", "r", "m", "i", "t", "o", "r", "i", "o">>, <<"D", "o", "r", "m", "i", "t", "o", "r", "i", "o">>>>,
     <<<<"h", "a", "b", "i", "t", "a", "c", "i", "o", "n">>, <<"D", "o", "r", "m", "i", "t", "o", "r", "i", "o">>>>,
     <<<<"h", "a", "b", "i", "t", "a", "c", "i", "ó", "n">>, <<"D", "o", "r", "m", "i", "t", "o", "r", "i", "o">>>>,
     <<<<"c", "u", "a", "r", "t", "o">>, <<"D", "o", "r", "m", "i", "t", "o", "r", "i", "o">>>>,
     <<<<"b", "e", "d", "r", "o", "o", "m">>, <<"D", "o", "r", "m", "i", "t", "o", "r", "i", "o">>>>,
     <<<<"b", "a", "ñ", "o">>, <<"B", "a", "ñ", "o">>>>,
     <<<<"b", "a", "n", "o">>, <<"B", "a", "ñ", "o">>>>,
     <<<<"a", "s", "e", "o">>, <<"B", "a", "ñ", "o">>>>,
     <<<<"b", "a", "t", "h", "r", "o", "o", "m">>, <<"B", "a", "ñ", "o">>>>,
     <<<<"p", "a", "s", "i", "l", "l", "o">>, <<"P", "a", "s", "i", "l", "l", "o">>>>,
     <<<<"c", "o", "r", "r", "e", "d", "o", "r">>, <<"P", "a", "s", "i", "l", "l", "o">>>>,
     <<<<"h", "a", "l", "l">>, <<"P", "a", "s", "i", "l", "l", "o">>>>,
     <<<<"e", "n", "t", "r", "a", "d", "a">>, <<"E", "n", "t", "r", "a", "d", "a">>>>,
     <<<<"r", "e", "c", "i", "b", "i", "d", "o", "r">>, <<"E", "n", "t", "r", "a", "d", "a">>>>,
     <<<<"g", "a", "r", "a", "j", "e">>, <<"G", "a", "r", "a", "j", "e">>>>,
     <<<<"g", "a", "r", "a", "g", "e">>, <<"G", "a", "r", "a", "j", "e">>>>,
     <<<<"j", "a", "r", "d", "i", "n">>, <<"J", "a", "r", "d", "í", "n">>>>,
     <<<<"j", "a", "r", "d", "í", "n">>, <<"J", "a", "r", "d", "í", "n">>>>,
     <<<<"e", "x", "t", "e", "r", "i", "o", "r">>, <<"E", "x", "t", "e", "r", "i", "o", "r">>>>,
     <<<<"t", "e", "r", "r", "a", "z", "a">>, <<"T", "e", "r", "r", "a", "z", "a">>>>,
     <<<<"b", "a", "l", "c", "o", "n">>, <<"B", "a", "l", "c", "ó", "n">>>>,
     <<<<"b", "a", "l", "c", "ó", "n">>, <<"B", "a", "l", "c", "ó", "n">>>>,
     <<<<"d", "e", "s", "p", "a", "c", "h", "o">>, <<"D", "e", "s", "p", "a", "c", "h", "o">>>>,
     <<<<"o", "f", "i", "c", "i", "n", "a">>, <<"D", "e", "s", "p", "a", "c", "h", "o">>>>,
     <<<<"e", "s", "t", "u", "d", "i", "o">>, <<"D", "e", "s", "p", "a", "c", "h", "o">>>>,
     <<<<"c", "o", "m", "e", "d", "o", "r">>, <<"C", "o", "m", "e", "d", "o", "r">>>>,
     <<<<"p", "r", "i", "n", "c", "i", "p", "a", "l">>, <<"P", "r", "i", "n", "c", "i", "p", "a", "l">>>>,
     <<<<"m", "a", "s", "t", "e", "r">>, <<"P", "r", "i", "n", "c", "i", "p", "a", "l">>>>,
     <<<<"n", "i", "ñ", "o", "s">>, <<"N", "i", "ñ", "o", "s">>>>,
     <<<<"n", "i", "n", "o", "s">>, <<"N", "i", "ñ", "o", "s">>>>,
     <<<<"i", "n", "v", "i", "t", "a", "d", "o", "s">>, <<"I", "n", "v", "i", "t", "a", "d", "o", "s">>>>>>

\* entity.get("entity_id", "").lower() and
\* entity.get("attributes", {}).get("friendly_name", "").lower() raise
\* AttributeError when the value is there but is not a string
TextRaises(e) ==
  \/ e.entity_id \in {Null, NotText}
  \/ e.friendly_name \in {Null, NotText}

IdLower(e) == Lower(GetOr(e.entity_id, <<>>))

NameLower(e) == Lower(GetOr(e.friendly_name, <<>>))

\* detect_rooms raises on the first document whose text is not a string
DetectRaises(ents) == \E i \in 1..Len(ents) : TextRaises(ents[i])

\* detect_rooms: the labels of the keywords that occur in the lower-cased
\* id or friendly name of some entity
detect_rooms(ents) ==
  {room_keywords[k][2] : k \in
     {k \in 1..Len(room_keywords) :
        \E i \in 1..Len(ents) :
          \/ Contains(room_keywords[k][1], IdLower(ents[i]))
          \/ Contains(room_keywords[k][1], NameLower(ents[i]))}}

\* `room.lower() in entity_id or room.lower() in friendly_name`
RoomMatches(room, e) ==
  Contains(Lower(room), IdLower(e)) \/ Contains(Lower(room), NameLower(e))

\* _extract_room: the values the call can return.  self.rooms is a set, so
\* the first matching label of its iteration is any matching label
extract_room(e, rs) ==
  IF \E room \in rs : RoomMatches(room, e)
  THEN {room \in rs : RoomMatches(room, e)}
  ELSE {NoRoom}

\* ----------------------------------------------------------- classify_light
\* `supported_features & b` is non-zero, b a power of two
Bit(sf, b) == (sf \div b) % 2 = 1

AfterColorTempMutant(type) == "tunable_white"

\* `if "rgb" not in classification["type"]: ... = "tunable_white"`; type
\* is "switch", "dimmable" or "rgb" at this point
AfterColorTemp(type) == IF type # "rgb" THEN "tunable_white" ELSE type

\* classification["type"] of classify_light for the integer mask sf
LightType(sf) ==
  IF sf = 0 THEN "switch"
  ELSE LET t1 == IF Bit(sf, 1) THEN "dimmable" ELSE "switch"
           t2 == IF Bit(sf, 16) THEN "rgb" ELSE t1
       IN IF Bit(sf, 128) THEN AfterColorTemp(t2) ELSE t2

\* classification["capabilities"] of classify_light
LightCapabilities(sf) ==
  IF sf = 0 THEN <<"on/off">>
  ELSE LET capabilities ==
             (IF Bit(sf, 1) THEN <<"brillo">> ELSE <<>>)
             \o (IF Bit(sf, 16) THEN <<"color RGB">> ELSE <<>>)
             \o (IF Bit(sf, 128) THEN <<"temperatura color">> ELSE <<>>)
             \o (IF Bit(sf, 4) THEN <<"efectos">> ELSE <<>>)
       IN IF capabilities # <<>> THEN capabilities ELSE <<"on/off">>

\* attributes.get("supported_features", 0)
FeaturesOf(e) ==
  IF e.features_kind = "missing" THEN 0 ELSE e.supported_features

\* None & 1 and "text" & 1 raise TypeError
LightRaises(e) == TextRaises(e) \/ e.features_kind \in {"null", "text"}

\* classify_light: the results the call can have
classify_light(e, rs) ==
  IF LightRaises(e) THEN {Raised}
  ELSE {Result("light", LightType(FeaturesOf(e)),
               LightCapabilities(FeaturesOf(e)), room) :
          room \in extract_room(e, rs)}

\* ---------------------------------------------------------- classify_sensor
\* sensor_types: device_class -> type
sensor_types ==
  ("temperature" :> "Temperatura") @@
  ("humidity" :> "Humedad") @@
  ("pressure" :> "Presión") @@
  ("battery" :> "Batería") @@
  ("power" :> "Potencia") @@
  ("energy" :> "Energía") @@
  ("voltage" :> "Voltaje") @@
  ("current" :> "Corriente") @@
  ("illuminance" :> "Iluminancia") @@
  ("motion" :> "Movimiento") @@
  ("occupancy" :> "Ocupación") @@
  ("opening" :> "Apertura") @@
  ("presence" :> "Presencia") @@
  ("smoke" :> "Humo") @@
  ("gas" :> "Gas") @@
  ("carbon_monoxide" :> "Monóxido de carbono") @@
  ("moisture" :> "Humedad/Inundación") @@
  ("pm25" :> "Partículas PM2.5") @@
  ("pm10" :> "Partículas PM10") @@
  ("carbon_dioxide" :> "CO2") @@
  ("volatile_organic_compounds" :> "VOC") @@
  ("aqi" :> "Calidad del aire")

\* d.get(device_class, "") with device_class = attributes.get(
\* "device_class", ""): a missing key looks up "", null looks up None
ByClass(d, dc) == IF dc \in DOMAIN d THEN d[dc] ELSE ""

\* the unit rules of classify_sensor, in their order; "" when none applies
SensorTypeByUnit(unit, entity_id) ==
  IF Contains(<<"°", "C">>, unit) \/ Contains(<<"°", "F">>, unit) THEN "Temperatura"
  ELSE IF Contains(<<"%">>, unit)
    THEN (IF Contains(<<"b", "a", "t", "t">>, Lower(entity_id)) THEN "Batería"
          ELSE "Humedad")
  ELSE IF Contains(<<"W">>, unit) \/ Contains(<<"k", "W">>, unit) THEN "Potencia"
  ELSE IF Contains(<<"W", "h">>, unit) \/ Contains(<<"k", "W", "h">>, unit) THEN "Energía"
  ELSE IF Contains(<<"l", "x">>, unit) THEN "Iluminancia"
  ELSE IF Contains(<<"p", "p", "m">>, unit) THEN "CO2"
  ELSE ""

\* the id keywords of classify_sensor, used when no unit rule applies
SensorTypeByName(name_lower) ==
  IF Contains(<<"t", "e", "m", "p">>, name_lower) \/ Contains(<<"t", "a", "_">>, name_lower)
    THEN "Temperatura"
  ELSE IF Contains(<<"h", "u", "m">>, name_lower) THEN "Humedad"
  ELSE IF Contains(<<"m", "o", "t", "i", "o", "n">>, name_lower)
          \/ Contains(<<"m", "o", "v", "i", "m", "i", "e", "n", "t", "o">>, name_lower) THEN "Movimiento"
  ELSE IF Contains(<<"d", "o", "o", "r">>, name_lower) \/ Contains(<<"p", "u", "e", "r", "t", "a">>, name_lower)
    THEN "Apertura puerta"
  ELSE IF Contains(<<"w", "i", "n", "d", "o", "w">>, name_lower)
          \/ Contains(<<"v", "e", "n", "t", "a", "n", "a">>, name_lower) THEN "Apertura ventana"
  ELSE "Otro"

\* classify_sensor raises: an unhashable device_class in the table
\* lookup; with no type from the table, `"°C" in unit` on a unit that is
\* not a string and entity_id.lower() on an id that is not a string
\* (entity.get("entity_id") is None when the key is missing); the room
\* lookup on text that is not a string
SensorRaises(e) ==
  \/ e.device_class = "<list>"
  \/ TextRaises(e)
  \/ /\ ByClass(sensor_types, e.device_class) = ""
     /\ \/ e.unit \in {Null, NotText}
        \/ /\ ~IsText(e.entity_id)
           /\ SensorTypeByUnit(GetOr(e.unit, <<>>), <<>>) \in {"Humedad", ""}

\* "type" of classify_sensor
SensorType(e) ==
  IF ByClass(sensor_types, e.device_class) # ""
  THEN ByClass(sensor_types, e.device_class)
  ELSE IF SensorTypeByUnit(GetOr(e.unit, <<>>), e.entity_id) # ""
    THEN SensorTypeByUnit(GetOr(e.unit, <<>>), e.entity_id)
  ELSE SensorTypeByName(Lower(e.entity_id))

\* classify_sensor: the results the call can have
classify_sensor(e, rs) ==
  IF SensorRaises(e) THEN {Raised}
  ELSE {Result("sensor", SensorType(e), <<>>, room) :
          room \in extract_room(e, rs)}

\* --------------------------------------------------- classify_binary_sensor
\* binary_types: device_class -> type
binary_types ==
  ("motion" :> "Movimiento/Presencia") @@
  ("occupancy" :> "Ocupación") @@
  ("opening" :> "Apertura (puerta/ventana)") @@
  ("door" :> "Puerta") @@
  ("window" :> "Ventana") @@
  ("smoke" :> "Detector de humo") @@
  ("gas" :> "Detector de gas") @@
  ("moisture" :> "Detector de inundación") @@
  ("presence" :> "Presencia") @@
  ("vibration" :> "Vibración") @@
  ("sound" :> "Sonido") @@
  ("battery" :> "Batería baja") @@
  ("connectivity" :> "Conectividad")

\* `any(kw in s for kw in kws)`, and a chain of `kw in s or ...`
AnyIn(kws, s) == \E kw \in kws : Contains(kw, s)

\* the id keywords of classify_binary_sensor, in their order
BinaryTypeByName(name_lower) ==
  IF AnyIn({<<"p", "r", "e", "s", "e", "n", "c", "i", "a">>, <<"p", "r", "e", "s", "e", "n", "c", "e">>, <<"m", "o", "t", "i", "o", "n">>, <<"m", "o", "v", "i", "m", "i", "e", "n", "t", "o">>, <<"d", "e", "t", "e", "c", "c", "i", "o", "n">>, <<"d", "e", "t", "e", "c", "t", "i", "o", "n">>}, name_lower)
    THEN "Movimiento/Presencia"
  ELSE IF AnyIn({<<"p", "u", "l", "s", "a", "d", "o", "r">>, <<"p", "u", "l", "s", "_">>, <<"b", "u", "t", "t", "o", "n">>}, name_lower)
    THEN "Pulsador/Botón"
  ELSE IF AnyIn({<<"p", "a", "n", "t", "a", "l", "l", "a">>, <<"d", "i", "s", "p", "l", "a", "y">>, <<"z", "3", "5">>}, name_lower)
    THEN "Estado pantalla/display"
  ELSE IF AnyIn({<<"v", "a", "l", "v", "u", "l", "a">>, <<"v", "a", "l", "v", "e">>}, name_lower)
    THEN "Estado válvula"
  ELSE IF AnyIn({<<"i", "n", "u", "n", "d", "a", "c", "i", "o", "n">>, <<"f", "l", "o", "o", "d">>, <<"w", "a", "t", "e", "r">>}, name_lower)
    THEN "Detector de inundación"
  ELSE IF AnyIn({<<"d", "o", "o", "r">>, <<"p", "u", "e", "r", "t", "a">>}, name_lower)
    THEN "Apertura puerta"
  ELSE IF AnyIn({<<"w", "i", "n", "d", "o", "w">>, <<"v", "e", "n", "t", "a", "n", "a">>}, name_lower)
    THEN "Apertura ventana"
  ELSE IF AnyIn({<<"s", "m", "o", "k", "e">>, <<"h", "u", "m", "o">>}, name_lower)
    THEN "Detector de humo"
  ELSE IF AnyIn({<<"c", "o", "n", "n", "e", "c", "t", "i", "o", "n">>, <<"c", "o", "n", "e", "c", "t", "i", "v", "i", "d", "a", "d">>, <<"c", "l", "o", "u", "d">>}, name_lower)
    THEN "Estado conexión"
  ELSE IF AnyIn({<<"i", "p", "c", "_">>, <<"r", "e", "c", "o", "r", "d", "i", "n", "g">>, <<"r", "e", "l", "a", "y">>, <<"a", "l", "a", "r", "m">>}, name_lower)
    THEN "Estado dispositivo"
  ELSE IF AnyIn({<<"o", "v", "e", "r", "h", "e", "a", "t", "e", "d">>, <<"s", "o", "b", "r", "e", "c", "a", "l", "e", "n", "t", "a", "m", "i", "e", "n", "t", "o">>}, name_lower)
    THEN "Alerta sobrecalentamiento"
  ELSE IF AnyIn({<<"k", "e", "s", "_">>, <<"d", "a", "l", "i", "b", "o", "x">>, <<"r", "a", "i", "l", "q", "u", "a", "d">>, <<"q", "u", "a", "d", "_">>, <<"s", "i", "b", "e", "r">>}, name_lower)
    THEN "Estado sistema"
  ELSE IF AnyIn({<<"p", "o", "w", "e", "r">>, <<"a", "l", "i", "m", "e", "n", "t", "a", "c", "i", "o", "n">>}, name_lower)
    THEN "Estado alimentación"
  ELSE IF AnyIn({<<"r", "e", "m", "o", "t", "e", "_", "u", "i">>}, name_lower)
    THEN "Interfaz remota"
  ELSE "Otro"

\* an unhashable device_class in the table lookup; entity_id.lower() on
\* an id that is not a string when the table gave no type; the room lookup
BinaryRaises(e) ==
  \/ e.device_class = "<list>"
  \/ TextRaises(e)
  \/ ByClass(binary_types, e.device_class) = "" /\ ~IsText(e.entity_id)

BinaryType(e) ==
  IF ByClass(binary_types, e.device_class) # ""
  THEN ByClass(binary_types, e.device_class)
  ELSE BinaryTypeByName(Lower(e.entity_id))

classify_binary_sensor(e, rs) ==
  IF BinaryRaises(e) THEN {Raised}
  ELSE {Result("binary_sensor", BinaryType(e), <<>>, room) :
          room \in extract_room(e, rs)}

\* ----------------------------------------------------------- classify_cover
\* cover_types: device_class -> type
cover_types ==
  ("awning" :> "Toldo") @@
  ("blind" :> "Persiana") @@
  ("curtain" :> "Cortina") @@
  ("damper" :> "Compuerta") @@
  ("door" :> "Puerta motorizada") @@
  ("garage" :> "Puerta garaje") @@
  ("gate" :> "Portón") @@
  ("shade" :> "Estor") @@
  ("shutter" :> "Contraventana") @@
  ("window" :> "Ventana motorizada")

\* the id keywords of classify_cover; default is the type found so far
CoverTypeByName(name_lower, default) ==
  IF Contains(<<"e", "s", "t", "o", "r">>, name_lower) THEN "Estor"
  ELSE IF Contains(<<"c", "o", "r", "t", "i", "n", "a">>, name_lower) THEN "Cortina"
  ELSE IF Contains(<<"t", "o", "l", "d", "o">>, name_lower) THEN "Toldo"
  ELSE IF Contains(<<"g", "a", "r", "a", "j", "e">>, name_lower) \/ Contains(<<"g", "a", "r", "a", "g", "e">>, name_lower)
    THEN "Puerta garaje"
  ELSE default

\* `device_class == "" or device_class == "None"`: the key is missing or
\* holds one of these two strings
CoverUsesName(e) == e.device_class \in {"<missing>", "", "None"}

CoverRaises(e) ==
  \/ e.device_class = "<list>"
  \/ TextRaises(e)
  \/ CoverUsesName(e) /\ ~IsText(e.entity_id)

\* cover_types.get(device_class, "Persiana"), then the id keywords
CoverType(e) ==
  LET cover_type == IF e.device_class \in DOMAIN cover_types
                    THEN cover_types[e.device_class] ELSE "Persiana"
  IN IF CoverUsesName(e)
     THEN CoverTypeByName(Lower(e.entity_id), cover_type)
     ELSE cover_type

classify_cover(e, rs) ==
  IF CoverRaises(e) THEN {Raised}
  ELSE {Result("cover", CoverType(e), <<>>, room) :
          room \in extract_room(e, rs)}

\* --------------------------------------------------------- classify_climate
classify_climate(e, rs) ==
  IF TextRaises(e) THEN {Raised}
  ELSE {Result("climate", "Climatización", <<>>, room) :
          room \in extract_room(e, rs)}

\* -------------------------------------------------------------- analyze_all
unknown == <<"u", "n", "k", "n", "o", "w", "n">>

\* the index of the first "." of id
FirstDot(id) ==
  CHOOSE j \in 1..Len(id) : id[j] = "." /\ \A m \in 1..(j - 1) : id[m] # "."

DomainMutant(id) ==
  IF Contains(<<".">>, id) THEN SubSeq(id, 1, FirstDot(id) - 1) ELSE id

\* `entity_id.split(".")[0] if "." in entity_id else "unknown"`
Domain(id) ==
  IF Contains(<<".">>, id) THEN SubSeq(id, 1, FirstDot(id) - 1) ELSE unknown

\* the branch of analyze_all taken for an entity: the section of the
\* analysis appended to, and the results the classification can have
Dispatch(e, rs) ==
  LET domain == Domain(GetOr(e.entity_id, <<>>)) IN
  IF domain = <<"l", "i", "g", "h", "t">>
    THEN [section |-> "lights", results |-> classify_light(e, rs)]
  ELSE IF domain = <<"s", "e", "n", "s", "o", "r">>
    THEN [section |-> "sensors", results |-> classify_sensor(e, rs)]
  ELSE IF domain = <<"b", "i", "n", "a", "r", "y", "_", "s", "e", "n", "s", "o", "r">>
    THEN [section |-> "binary_sensors",
          results |-> classify_binary_sensor(e, rs)]
  ELSE IF domain = <<"c", "o", "v", "e", "r">>
    THEN [section |-> "covers", results |-> classify_cover(e, rs)]
  ELSE IF domain = <<"c", "l", "i", "m", "a", "t", "e">>
    THEN [section |-> "climate", results |-> classify_climate(e, rs)]
  ELSE IF domain = <<"s", "w", "i", "t", "c", "h">>
    THEN [section |-> "switches",
          results |-> IF TextRaises(e) THEN {Raised}
                      ELSE {Result("switch", "", <<>>, room) :
                              room \in extract_room(e, rs)}]
  ELSE [section |-> "other", results |-> {Result("other", "", <<>>, NoRoom)}]

\* the entry appended for entity number i: lights, sensors,
\* binary_sensors and covers are keyed by type, other by domain
ItemsOf(e, i, rs) ==
  {[section |-> Dispatch(e, rs).section, type |-> r.type,
    domain |-> Domain(GetOr(e.entity_id, <<>>)), idx |-> i,
    room |-> r.room] : r \in Dispatch(e, rs).results \ {Raised}}

\* the loop of analyze_all over the first n entities, in order
RECURSIVE AnalysisItems(_, _, _)
AnalysisItems(ents, rs, n) ==
  IF n = 0 THEN {<<>>}
  ELSE {Append(items, it) : items \in AnalysisItems(ents, rs, n - 1),
                            it \in ItemsOf(ents[n], n, rs)}

\* some classification of the loop raises; nothing catches it
LoopRaises(ents, rs) ==
  \E i \in 1..Len(ents) : Raised \in Dispatch(ents[i], rs).results

\* ------------------------------------------------------ analyzer actions
\* light documents handed to classify_light
LightProbes ==
  {Entity(<<"l", "i", "g", "h", "t", ".", "x">>, Missing, "int", m, "<missing>", Missing) :
     m \in 0..MaxMask}
  \cup {Entity(<<"l", "i", "g", "h", "t", ".", "x">>, Missing, fk, 0, "<missing>", Missing) :
          fk \in {"missing", "null", "text"}}

\* a call of classify_light on a newly constructed analyzer
ClassifyLight(e) ==
  /\ entities = <<>> /\ classified = NotRun
  /\ probe' = e
  /\ classified' \in classify_light(e, rooms)
  /\ UNCHANGED <<vars, entities, rooms, analysis>>

\* sensor documents handed to classify_sensor
SensorUnits ==
  {Missing, Null,
   <<"°", "C">>,
   <<"°", "F">>,
   <<"%">>,
   <<"W">>,
   <<"k", "W">>,
   <<"W", "h">>,
   <<"k", "W", "h">>,
   <<"l", "x">>,
   <<"p", "p", "m">>,
   <<"V">>}

SensorProbes ==
  {Entity(id, Missing, "missing", 0, dc, unit) :
     id \in {<<"s", "e", "n", "s", "o", "r", ".", "b", "a", "t", "t", "_", "1">>,
             <<"s", "e", "n", "s", "o", "r", ".", "m", "e", "t", "e", "r">>,
             <<"s", "e", "n", "s", "o", "r", ".", "t", "e", "m", "p", "_", "o", "u", "t">>},
     dc \in {"<missing>", "<null>", "<list>", "temperature", "bogus"},
     unit \in SensorUnits}

\* a call of classify_sensor on a newly constructed analyzer
ClassifySensor(e) ==
  /\ entities = <<>> /\ classified = NotRun
  /\ probe' = e
  /\ classified' \in classify_sensor(e, rooms)
  /\ UNCHANGED <<vars, entities, rooms, analysis>>

\* the largest snapshot followed
MaxEntities == 2

\* documents of a snapshot: the domains analyze_all tells apart, an id
\* with no ".", a document with no keys, a room keyword that is not the
\* lower-cased label, two labels matching one entity, and malformed values
EntityPool ==
  {EmptyDoc,
   Entity(<<"l", "i", "g", "h", "t", ".", "k", "i", "t", "c", "h", "e", "n">>,
          Missing, "int", 17, "<missing>", Missing),
   Entity(<<"l", "i", "g", "h", "t", ".", "c", "o", "c", "i", "n", "a">>,
          Missing, "missing", 0, "<missing>", Missing),
   Entity(<<"s", "e", "n", "s", "o", "r", ".", "s", "a", "l", "o", "n", "_", "t", "e", "m", "p">>,
          <<"S", "a", "l", "ó", "n">>, "missing", 0, "<missing>", <<"°", "C">>),
   Entity(<<"s", "e", "n", "s", "o", "r", ".", "m", "e", "t", "e", "r">>,
          Missing, "missing", 0, "<missing>", <<"k", "W", "h">>),
   Entity(<<"b", "i", "n", "a", "r", "y", "_", "s", "e", "n", "s", "o", "r", ".", "h", "a", "l", "l", "_", "m", "o", "t", "i", "o", "n">>,
          Missing, "missing", 0, "motion", Missing),
   Entity(<<"c", "o", "v", "e", "r", ".", "e", "s", "t", "o", "r", "_", "b", "a", "n", "o">>,
          Missing, "missing", 0, "<missing>", Missing),
   Entity(<<"c", "l", "i", "m", "a", "t", "e", ".", "l", "i", "v", "i", "n", "g">>,
          Missing, "missing", 0, "<null>", Missing),
   Entity(<<"s", "w", "i", "t", "c", "h", ".", "g", "a", "r", "a", "j", "e">>,
          <<"C", "o", "c", "i", "n", "a">>, "missing", 0, "<missing>", Missing),
   Entity(<<"m", "e", "d", "i", "a", "_", "p", "l", "a", "y", "e", "r", ".", "t", "v">>,
          Missing, "missing", 0, "<missing>", Missing),
   Entity(<<"n", "o", "d", "o", "t">>,
          Missing, "missing", 0, "<missing>", Missing),
   Entity(<<"l", "i", "g", "h", "t", ".", "b", "a", "d">>,
          Missing, "null", 0, "<missing>", Missing),
   Entity(<<"s", "e", "n", "s", "o", "r", ".", "n", "o", "n", "a", "m", "e">>,
          Null, "missing", 0, "temperature", Missing)}

RECURSIVE SeqsUpTo(_, _)
SeqsUpTo(pool, n) ==
  IF n = 0 THEN {<<>>}
  ELSE SeqsUpTo(pool, n - 1)
       \cup {Append(s, e) : s \in {q \in SeqsUpTo(pool, n - 1) :
                                     Len(q) = n - 1}, e \in pool}

Snapshots == SeqsUpTo(EntityPool, MaxEntities)

\* fetch_all_entities succeeds: self.entities = r.json().  A failed fetch
\* changes nothing.  The run followed is the first snapshot loaded
FetchAll(snapshot) ==
  /\ entities = <<>> /\ analysis.status = "none" /\ classified = NotRun
  /\ snapshot # <<>>
  /\ entities' = snapshot
  /\ UNCHANGED <<vars, rooms, analysis, probe, classified>>

\* analyze_all, the whole call.  status is how the call ended: "empty"
\* (returned {} early), "raise" (an exception left it, self.analysis not
\* assigned) or "done" (self.analysis assigned)
AnalyzeAll ==
  /\ analysis.status = "none" /\ classified = NotRun
  /\ IF entities = <<>>
     THEN analysis' = [NoAnalysis EXCEPT !.status = "empty"]
          /\ rooms' = rooms
     ELSE IF DetectRaises(entities)
     THEN analysis' = [NoAnalysis EXCEPT !.status = "raise"]
          /\ rooms' = rooms
     ELSE LET rs == detect_rooms(entities) IN
          /\ rooms' = rs
          /\ IF LoopRaises(entities, rs)
             THEN analysis' = [NoAnalysis EXCEPT !.status = "raise"]
             ELSE \E items \in AnalysisItems(entities, rs, Len(entities)) :
                    analysis' = [status |-> "done",
                                 total_entities |-> Len(entities),
                                 rooms |-> rs, items |-> items]
  /\ UNCHANGED <<vars, entities, probe, classified>>

\* _extract_room on entity number i of the analysed snapshot
ExtractRoom(i) ==
  /\ analysis.status = "done" /\ classified = NotRun
  /\ i \in 1..Len(entities)
  /\ probe' = entities[i]
  /\ classified' \in {Result("room", "", <<>>, room) :
                        room \in extract_room(entities[i], rooms)}
  /\ UNCHANGED <<vars, entities, rooms, analysis>>

NextClassify ==
  \/ \E e \in LightProbes : ClassifyLight(e)
  \/ \E e \in SensorProbes : ClassifySensor(e)
  \/ \E snapshot \in Snapshots : FetchAll(snapshot)
  \/ AnalyzeAll
  \/ \E i \in 1..MaxEntities : ExtractRoom(i)

SpecClassify == Init /\ [][NextClassify]_allVars

\* ---------------------------------------------------------------- claims
RECURSIVE RowsOf(_, _)
\* number of rows of seq written by session s
RowsOf(seq, s) ==
  IF seq = <<>> THEN 0
  ELSE (IF seq[1].s = s /\ IsData(seq[1]) THEN 1 ELSE 0)
       + RowsOf(Tail(seq), s)

RECURSIVE Headers(_)
Headers(seq) ==
  IF seq = <<>> THEN 0
  ELSE (IF IsData(seq[1]) THEN 0 ELSE 1) + Headers(Tail(seq))

RECURSIVE HeadersInBufs(_)
HeadersInBufs(n) == IF n = 0 THEN 0 ELSE Headers(buf[n]) + HeadersInBufs(n - 1)

TableEntries(s) == {e \in Entities : last_states[s][e] # Absent}

\* rows the worker of session s has written for entity e (after the baseline)
WorkerRows(s, e) ==
  IF workerPC[s] = "none" THEN 0
  ELSE CountIf(SubSeq(written[s], baseLen[s] + 1, Len(written[s])), s, e)

IsPrefix(a, b) == Len(a) <= Len(b) /\ SubSeq(b, 1, Len(a)) = a

\* C1: in every state between per-entity steps of a session whose worker
\* was started, for every entity the last-known-value table has an entry
\* iff the session has written a record for it, and the entry is the state
\* of the last record written for it -- also after a step whose sink write
\* failed.
C1_TableSinkAgreement ==
  \A s \in Sessions : workerPC[s] # "none" =>
    \A e \in Entities : last_states[s][e] = LastRecorded(written[s], e)

\* C2: when the worker thread has just been started (it has not run yet),
\* the session has written exactly one record per successfully fetched
\* entity, all of them are in the file, and the table has as many entries,
\* whether or not the file held earlier history.
C2_Baseline ==
  \A s \in Sessions : (workerPC[s] = "top" /\ checks_count[s] = 0) =>
    /\ Len(written[s]) = baselineOK[s]
    /\ RowsOf(file, s) = baselineOK[s]
    /\ Cardinality(TableEntries(s)) = baselineOK[s]
    /\ \A e \in Entities :
         CountIf(file, s, e) = (IF e \in TableEntries(s) THEN 1 ELSE 0)

\* a session reaches Polling over a file with earlier history, one of its
\* two baseline fetches having failed
C2_Witness ==
  \E s \in Sessions :
    /\ workerPC[s] = "top" /\ checks_count[s] = 0
    /\ existedAtOpen[s] /\ Len(selected[s]) = 2 /\ baselineOK[s] = 1

\* C3: for every entity the worker calls writerow exactly once per
\* successful fetch whose state differs from the last record of the entity
\* (no record counting as different), and while no sink write has failed
\* that is the number of records it has written for the entity.
C3_ChangeDetection ==
  \A s \in Sessions : \A e \in Entities :
    /\ attempts[s][e] = differ[s][e]
    /\ ~sinkFailed[s] => WorkerRows(s, e) = differ[s][e]

\* two ticks over one entity: one fetch differed and was written, the
\* other was successful, equal to the last record, and wrote nothing
C3_Witness ==
  \E s \in Sessions :
    /\ Len(selected[s]) = 1 /\ checks_count[s] = 2 /\ workerPC[s] = "sleep"
    /\ baselineOK[s] = 1 /\ lastResult[s] # "None"
    /\ differ[s]["e1"] = 1 /\ WorkerRows(s, "e1") = 1

\* C4: a session writes the header iff the file did not exist when it
\* opened it; a file created by a session has exactly one header row, its
\* first row, however many sessions re-open it.
C4_HeaderOnce ==
  /\ \A s \in Sessions : selected[s] # <<>> =>
       wroteHeader[s] = ~existedAtOpen[s]
  /\ createdBy # 0 =>
       /\ Headers(file) + HeadersInBufs(MaxSessions) = 1
       /\ file # <<>> => file[1] = HeaderRow
  /\ createdBy = 0 => HeadersInBufs(MaxSessions) = 0

\* the second session re-opened the file the first one created and has
\* appended a record
C4_Witness ==
  /\ createdBy = 1 /\ cur = 2 /\ existedAtOpen[2] /\ ~wroteHeader[2]
  /\ RowsOf(file, 1) > 0 /\ RowsOf(file, 2) > 0

\* C5: once the stop flag has been set while the worker was in its
\* inter-tick sleep, the worker makes no fetch, writes no row and starts no
\* tick: the file changes only by the close.
C5_CancelInSleep ==
  [][\A s \in Sessions : cancelInSleep[s] =>
       /\ fetches'[s] = fetches[s]
       /\ written'[s] = written[s]
       /\ checks_count'[s] = checks_count[s]
       /\ workerPC'[s] \in {"sleep", "top", "done"}
       /\ RowsOf(file', s) = RowsOf(file, s)]_vars

C5_Witness ==
  \E s \in Sessions :
    cancelInSleep[s] /\ workerPC[s] = "done" /\ closed[s]
      /\ checks_count[s] = 1

\* C6: in a session that reached Polling, once the cancellation signal has
\* fired and the worker thread has ended, the worker has closed the sink
\* (the close is the last thing the worker does to the sink).
C6_StoppedWorkerClosedSink ==
  \A s \in Sessions :
    (mainPC[s] = "join" /\ workerPC[s] \in {"done", "died"}) => closed[s]

\* C7 as stated: every fetch of a session, in the baseline as in the
\* worker, is made with no data row left unflushed in the csv handle.
C7_FlushBeforeNextFetch ==
  [][\A s \in Sessions :
       fetches'[s] # fetches[s] => DataRows(buf[s]) = 0]_vars

\* C7 amended: every record the worker writes is in the file, as its last
\* row, at the end of the step that writes it, and the worker fetches with
\* an empty buffer; the baseline records are buffered and reach the file
\* together when the worker thread is started; the file only grows at its
\* end.
C7_WorkerFlushEveryWrite ==
  [][/\ \A s \in Sessions :
          /\ (workerPC[s] = "poll" /\ fetches'[s] # fetches[s])
               => buf[s] = <<>>
          /\ (workerPC[s] = "poll" /\ written'[s] # written[s])
               => /\ buf'[s] = <<>>
                  /\ file' = Append(file, written'[s][Len(written'[s])])
          /\ (workerPC[s] = "none" /\ workerPC'[s] = "top")
               => /\ buf'[s] = <<>>
                  /\ RowsOf(file', s) = Len(written[s])
     /\ IsPrefix(file, file')]_vars

\* the worker has written a record in this tick and is at the next entity
C7_Witness ==
  \E s \in Sessions :
    /\ workerPC[s] = "poll" /\ wIdx[s] = 2 /\ buf[s] = <<>>
    /\ Len(written[s]) > baseLen[s]
    /\ file[Len(file)] = written[s][Len(written[s])]

\* C8 as stated: a call with an empty entity list ends by raising to the
\* caller.
C8_EmptyRaises ==
  \A s \in Sessions : report[s] = "no_entities" => callResult[s] = "raise"

\* C8 amended: a call with an empty entity list prints the refusal and
\* returns normally; it opens or creates no sink, writes no header, makes
\* no fetch and starts no worker, and the file is left as it was.
C8_EmptyRefused ==
  /\ [](\A s \in Sessions : (s <= cur /\ selected[s] = <<>>) =>
          /\ report[s] = "no_entities"
          /\ callResult[s] = "return" /\ mainPC[s] = "returned"
          /\ fetches[s] = 0 /\ workerPC[s] = "none"
          /\ buf[s] = <<>> /\ ~wroteHeader[s] /\ createdBy # s
          /\ ~closed[s] /\ written[s] = <<>>)
  /\ [][\A s \in Sessions :
          (report[s] = "none" /\ report'[s] = "no_entities") =>
             file' = file /\ fileExists' = fileExists]_vars

\* an empty selection was refused and no file came into existence
C8_Witness ==
  cur >= 1 /\ report[1] = "no_entities" /\ ~fileExists

\* C9: whenever a record write of a session has failed, the session has
\* stopped (the call is over, without waiting for the cancellation signal)
\* and has reported the error.
C9_WriteFailureFatal ==
  \A s \in Sessions :
    sinkFailed[s] => mainPC[s] = "returned" /\ report[s] = "error"

\* C10: a worker step whose fetch failed writes nothing, leaves the table
\* and the change counter as they were, and the worker goes on: to the next
\* entity of the tick, or to the sleep before the next tick.
C10_FetchFailureContained ==
  [][\A s \in Sessions :
       (workerPC[s] = "poll" /\ fetches'[s] # fetches[s]
          /\ lastResult'[s] = "None") =>
         /\ file' = file /\ buf' = buf /\ written' = written
         /\ last_states' = last_states
         /\ changes_count' = changes_count
         /\ IF wIdx[s] < Len(selected[s])
            THEN workerPC'[s] = "poll" /\ wIdx'[s] = wIdx[s] + 1
            ELSE workerPC'[s] = "sleep"
         /\ active'[s] = active[s] /\ mainPC'[s] = mainPC[s]]_vars

\* both baseline fetches and the tick's fetch of the first entity have
\* failed, and the worker is at the second entity of the tick
C10_Witness ==
  \E s \in Sessions :
    /\ workerPC[s] = "poll" /\ wIdx[s] = 2 /\ lastResult[s] = "None"
    /\ written[s] = <<>> /\ TableEntries(s) = {}

\* the session has the csv file open and a thread that writes to it
HoldsSink(s) ==
  /\ selected[s] # <<>> /\ ~closed[s]
  /\ mainPC[s] = "baseline" \/ workerPC[s] \in {"top", "poll", "sleep"}

\* C11: at most one thread of control can write to the csv file: no two
\* sessions hold it open for writing at once, and no row of an earlier
\* session reaches the file after a row of a later session.
C11_ExclusiveSink ==
  /\ \A s, t \in Sessions : s < t => ~(HoldsSink(s) /\ HoldsSink(t))
  /\ \A i, j \in 1..Len(file) : i < j => file[i].s <= file[j].s

\* C15: a failed baseline fetch leaves the entity without table entry and
\* without record; a successful worker fetch of an entity without table
\* entry calls writerow once and creates the entry with the fetched state,
\* whatever that state is, and unless the write raises the record is the
\* next row of the session and of the file.
C15_LateBaseline ==
  [][\A s \in Sessions :
       /\ (mainPC[s] = "baseline" /\ fetches'[s] # fetches[s]
             /\ lastResult'[s] = "None") =>
            /\ last_states'[s] = last_states[s]
            /\ written'[s] = written[s] /\ buf'[s] = buf[s]
       /\ (workerPC[s] = "poll" /\ fetches'[s] # fetches[s]
             /\ lastResult'[s] # "None"
             /\ last_states[s][selected[s][wIdx[s]]] = Absent) =>
            LET e == selected[s][wIdx[s]]
                row == Row(s, e, StateOf(lastResult'[s]))
            IN /\ CountIf(written[s], s, e) = 0
               /\ last_states'[s][e] = StateOf(lastResult'[s])
               /\ attempts'[s][e] = attempts[s][e] + 1
               /\ ~sinkFailed'[s] =>
                    /\ written'[s] = Append(written[s], row)
                    /\ file' = Append(file, row)]_vars

\* the only watched entity failed in the baseline and in the first tick and
\* was recorded by the second tick
C15_Witness ==
  \E s \in Sessions :
    /\ Len(selected[s]) = 1 /\ baselineOK[s] = 0 /\ checks_count[s] = 2
    /\ Len(written[s]) = 1 /\ last_states[s]["e1"] # Absent
    /\ file[Len(file)] = written[s][1]

\* C16: whenever the call has reported the session stopped (it returned
\* after the cancellation), the worker thread has ended and the sink is
\* closed.
C16_StoppedMeansClosed ==
  \A s \in Sessions :
    report[s] = "stopped" => workerPC[s] \in {"done", "died"} /\ closed[s]

\* bit of value v is set in the mask m
HasBit(m, v) == m % (2 * v) >= v

\* C12: for every integer mask the category of a light is rgb if bit 4 is
\* set, else tunable_white if bit 7 is set, else dimmable if bit 0 is set,
\* else switch; when none of the bits 0, 2, 4, 7 is set the capabilities
\* are exactly ["on/off"].
C12_LightCategory ==
  (classified.kind = "light" /\ probe.features_kind = "int") =>
    LET m == probe.supported_features IN
      /\ classified.type =
           (IF HasBit(m, 16) THEN "rgb"
            ELSE IF HasBit(m, 128) THEN "tunable_white"
            ELSE IF HasBit(m, 1) THEN "dimmable" ELSE "switch")
      /\ classified.type \in {"switch", "dimmable", "rgb", "tunable_white"}
      /\ (~HasBit(m, 1) /\ ~HasBit(m, 4) /\ ~HasBit(m, 16)
            /\ ~HasBit(m, 128)) => classified.capabilities = <<"on/off">>

\* the mask has bits 0, 4 and 7 set and the light is rgb
C12_Witness ==
  /\ classified.kind = "light" /\ probe.features_kind = "int"
  /\ probe.supported_features = 145 /\ classified.type = "rgb"

\* C13: for a sensor whose device_class is absent or not in the table the
\* type follows the unit: °C or °F temperature; % battery if the id
\* contains "batt", else humidity; W or kW power; Wh or kWh energy; lx
\* illuminance; ppm CO2.
C13_UnitFallback ==
  (classified.kind = "sensor"
     /\ probe.device_class \notin DOMAIN sensor_types) =>
    LET unit == probe.unit IN
      /\ unit \in {<<"°", "C">>, <<"°", "F">>} => classified.type = "Temperatura"
      /\ unit = <<"%">> =>
           classified.type =
             (IF Contains(<<"b", "a", "t", "t">>, Lower(probe.entity_id))
              THEN "Batería" ELSE "Humedad")
      /\ unit \in {<<"W">>, <<"k", "W">>} => classified.type = "Potencia"
      /\ unit \in {<<"W", "h">>, <<"k", "W", "h">>} => classified.type = "Energía"
      /\ unit = <<"l", "x">> => classified.type = "Iluminancia"
      /\ unit = <<"p", "p", "m">> => classified.type = "CO2"

\* C14: classification never raises: no call of a classification rule
\* ends with an exception, whatever attribute is missing or malformed,
\* and no full pass (analyze_all) is ended by one.
C14_NeverRaises ==
  /\ classified # Raised
  /\ analysis.status # "raise"

\* s has no "."
NoDot(s) == \A j \in 1..Len(s) : s[j] # "."

\* d is the part of id before its first "."
IsPrefixBeforeDot(d, id) ==
  /\ NoDot(d)
  /\ Len(id) > Len(d)
  /\ SubSeq(id, 1, Len(d)) = d
  /\ id[Len(d) + 1] = "."

\* the section the prefix of an id stands for
SectionOfPrefix(id) ==
  IF IsPrefixBeforeDot(<<"l", "i", "g", "h", "t">>, id) THEN "lights"
  ELSE IF IsPrefixBeforeDot(<<"s", "e", "n", "s", "o", "r">>, id) THEN "sensors"
  ELSE IF IsPrefixBeforeDot(<<"b", "i", "n", "a", "r", "y", "_", "s", "e", "n", "s", "o", "r">>, id) THEN "binary_sensors"
  ELSE IF IsPrefixBeforeDot(<<"c", "o", "v", "e", "r">>, id) THEN "covers"
  ELSE IF IsPrefixBeforeDot(<<"c", "l", "i", "m", "a", "t", "e">>, id) THEN "climate"
  ELSE IF IsPrefixBeforeDot(<<"s", "w", "i", "t", "c", "h">>, id) THEN "switches"
  ELSE "other"

\* C17: after a completed analyze_all over a non-empty snapshot every
\* entity is in exactly one bucket of the result, the one its prefix
\* before the first "." stands for (other keyed by that prefix, or by
\* "unknown" when the id has no "."), and the bucket sizes sum to
\* total_entities.
C17_Partition ==
  analysis.status = "done" =>
    /\ entities # <<>>
    /\ analysis.total_entities = Len(entities)
    /\ Len(analysis.items) = analysis.total_entities
    /\ \A i \in 1..Len(entities) :
         Cardinality({k \in 1..Len(analysis.items) :
                        analysis.items[k].idx = i}) = 1
    /\ \A k \in 1..Len(analysis.items) :
         LET it == analysis.items[k]
             id == GetOr(entities[it.idx].entity_id, <<>>)
         IN /\ it.section = SectionOfPrefix(id)
            /\ it.section = "other" =>
                 IF NoDot(id) THEN it.domain = <<"u", "n", "k", "n", "o", "w", "n">>
                 ELSE IsPrefixBeforeDot(it.domain, id)

\* a completed pass over two entities, one in lights and one with no "."
\* in its id, which is in other under "unknown"
C17_Witness ==
  /\ analysis.status = "done"
  /\ Len(analysis.items) = 2
  /\ \E k \in 1..2 : analysis.items[k].section = "lights"
  /\ \E k \in 1..2 : /\ analysis.items[k].section = "other"
                     /\ analysis.items[k].domain = <<"u", "n", "k", "n", "o", "w", "n">>
                     /\ entities[analysis.items[k].idx].entity_id = <<"n", "o", "d", "o", "t">>

\* some keyword of the room table occurs in the lower-cased id or
\* friendly name of e
KeywordOccurs(e) ==
  \E k \in 1..Len(room_keywords) :
    \/ Contains(room_keywords[k][1], Lower(GetOr(e.entity_id, <<>>)))
    \/ Contains(room_keywords[k][1], Lower(GetOr(e.friendly_name, <<>>)))

\* C18: if a keyword of the room table occurs in the entity's
\* lower-cased id or friendly name, the room lookup returns a label of
\* the RoomSet and not none; whatever it returns is none or a member of
\* the RoomSet.
C18_KeywordImpliesRoom ==
  classified.kind = "room" =>
    /\ KeywordOccurs(probe) =>
         classified.room # NoRoom /\ classified.room \in rooms
    /\ classified.room = NoRoom \/ classified.room \in rooms

====
